---- MODULE Spec2Model ----
(***************************************************************************)
(* A model of the Scheme interpreter of src/src: the cons-cell arena with  *)
(* its mark-and-sweep collector, symbol interning, the lexer and parser,   *)
(* the tree-walking evaluator with its primitives, and the REPL driver.    *)
(* Text is a TLA+ string; a character is a string of length one.           *)
(***************************************************************************)
EXTENDS Integers, Sequences, FiniteSets, TLC

(***************************************************************************)
(* Bounds of the model.                                                    *)
(***************************************************************************)
\* Number of lines the driver reads from standard input before it closes.
MaxLines == 2
\* Depth of nested eval_in calls the native stack holds.
MaxDepth == 12

(***************************************************************************)
(* Characters.                                                             *)
(***************************************************************************)
LowerCase == "abcdefghijklmnopqrstuvwxyz"
UpperCase == "ABCDEFGHIJKLMNOPQRSTUVWXYZ"
Digits == "0123456789"

CharAt(s, i) == SubSeq(s, i, i)

IndexIn(c, alphabet) ==
    IF \E i \in 1..Len(alphabet) : CharAt(alphabet, i) = c
    THEN CHOOSE i \in 1..Len(alphabet) : CharAt(alphabet, i) = c
    ELSE 0

\* char::is_whitespace, on the white space a line of input here can hold.
is_whitespace(c) == c \in {" ", "\t"}

DigitChars == {CharAt(Digits, i) : i \in 1..Len(Digits)}

is_ascii_digit(c) == c \in DigitChars

\* The upper-case letter of each lower-case letter.
UpperOf ==
    [c \in {CharAt(LowerCase, i) : i \in 1..Len(LowerCase)} |->
        CharAt(UpperCase, IndexIn(c, LowerCase))]

\* u8::to_ascii_uppercase
CharToUpper(c) == IF c \in DOMAIN UpperOf THEN UpperOf[c] ELSE c

\* str::to_ascii_uppercase maps every character on its own; the text is
\* halved rather than walked, which keeps the evaluation shallow.
RECURSIVE to_ascii_uppercase(_)
to_ascii_uppercase(s) ==
    CASE Len(s) = 0 -> ""
      [] Len(s) = 1 -> CharToUpper(s)
      [] Len(s) > 1 -> to_ascii_uppercase(SubSeq(s, 1, Len(s) \div 2))
                           \o to_ascii_uppercase(SubSeq(s, Len(s) \div 2 + 1, Len(s)))

starts_with(s, p) == Len(s) >= Len(p) /\ SubSeq(s, 1, Len(p)) = p

(***************************************************************************)
(* lexer.rs                                                                *)
(***************************************************************************)
Token(t, s) == [t |-> t, s |-> s]
LBracket == Token("LBracket", "")
RBracket == Token("RBracket", "")
Dot == Token("Dot", "")
Tick == Token("Tick", "")
Value(s) == Token("Value", s)

IsDelimiter(c) == is_whitespace(c) \/ c = "(" \/ c = ")"

\* How many characters at the head of s the inner `while` of tokenize takes
\* into the atom: all of them up to the first whitespace or bracket.
AtomRun(s) ==
    LET stops == {i \in 1..Len(s) : IsDelimiter(CharAt(s, i))}
    IN  IF stops = {} THEN Len(s)
        ELSE (CHOOSE i \in stops : \A j \in stops : i <= j) - 1

\* The loop of tokenize over a text, one character or one atom at a time.
RECURSIVE TokenizeRun(_)
TokenizeRun(input) ==
    CASE input = "" -> <<>>
      [] input # "" /\ is_whitespace(Head(input)) -> TokenizeRun(Tail(input))
      [] input # "" /\ Head(input) = "(" -> <<LBracket>> \o TokenizeRun(Tail(input))
      [] input # "" /\ Head(input) = ")" -> <<RBracket>> \o TokenizeRun(Tail(input))
      [] input # "" /\ Head(input) = "." -> <<Dot>> \o TokenizeRun(Tail(input))
      [] input # "" /\ Head(input) = "'" -> <<Tick>> \o TokenizeRun(Tail(input))
      [] OTHER -> <<Value(SubSeq(input, 1, 1 + AtomRun(Tail(input))))>>
                      \o TokenizeRun(SubSeq(input, 2 + AtomRun(Tail(input)), Len(input)))

\* The white space of s that is nearest to its middle; 0 when s has none.
MiddleSpace(s) ==
    LET ws == {i \in 1..Len(s) : is_whitespace(CharAt(s, i))}
        off(i) == IF 2 * i > Len(s) THEN 2 * i - Len(s) ELSE Len(s) - 2 * i
    IN  IF ws = {} THEN 0 ELSE CHOOSE i \in ws : \A j \in ws : off(i) <= off(j)

\* tokenize.  White space is skipped and ends every atom, so the loop over a
\* line yields the tokens of the text before a white space followed by those
\* of the text after it; the line is cut at its middle-most white space,
\* which keeps the evaluation shallow.
RECURSIVE tokenize(_)
tokenize(input) ==
    IF MiddleSpace(input) = 0 THEN TokenizeRun(input)
    ELSE tokenize(SubSeq(input, 1, MiddleSpace(input) - 1))
             \o tokenize(SubSeq(input, MiddleSpace(input) + 1, Len(input)))

(***************************************************************************)
(* Expr: the tagged value.  num carries the integer, the boolean (1/0),    *)
(* the arena key of a Pair or Closure, or the allocation of a Symbol's     *)
(* Rc<str>; str carries the name of a Symbol or Primitive.                 *)
(***************************************************************************)
Expr(tag, num, str) == [tag |-> tag, num |-> num, str |-> str]
Nil == Expr("Nil", 0, "")
Boolean(b) == Expr("Boolean", IF b THEN 1 ELSE 0, "")
Integer(n) == Expr("Integer", n, "")
Symbol(name, rc) == Expr("Symbol", rc, name)
Pair(k) == Expr("Pair", k, "")
Closure(k) == Expr("Closure", k, "")
Primitive(name) == Expr("Primitive", 0, name)

is_nil(e) == e.tag = "Nil"
is_pair(e) == e.tag = "Pair"
is_symbol(e) == e.tag = "Symbol"
is_truthy(e) == ~(e.tag = "Boolean" /\ e.num = 0)
is_specific_symbol(e, s) == e.tag = "Symbol" /\ e.str = s

\* The derived PartialEq of Expr: an Rc<str> compares by the string it holds.
ExprEq(a, b) ==
    IF a.tag = "Symbol" /\ b.tag = "Symbol" THEN a.str = b.str ELSE a = b

\* Rc::ptr_eq on two symbols: the same allocation.
SameRc(a, b) == a.tag = "Symbol" /\ b.tag = "Symbol" /\ a.num = b.num

(***************************************************************************)
(* Results.  SResult<T> is Ok(v) or Err(kind); an operation that takes     *)
(* &mut Heap also yields the heap it leaves.  The kind "Panic" is a Rust   *)
(* panic and "StackOverflow" the exhaustion of the native stack: neither   *)
(* is an SError, both end the process.                                     *)
(***************************************************************************)
Ok(v) == [ok |-> TRUE, val |-> v, err |-> ""]
Err(e) == [ok |-> FALSE, val |-> Nil, err |-> e]
HOk(h, v) == [h |-> h, ok |-> TRUE, val |-> v, err |-> ""]
HErr(h, e) == [h |-> h, ok |-> FALSE, val |-> Nil, err |-> e]
Result(r) == [ok |-> r.ok, val |-> r.val, err |-> r.err]
WithHeap(h, r) == [h |-> h, ok |-> r.ok, val |-> r.val, err |-> r.err]

(***************************************************************************)
(* Heap.  cells is the Slab: a function from the occupied keys to the      *)
(* cell (first, rest, mark); len is the length of the slab's entry vector  *)
(* and free the chain of vacant entries, most recently vacated first.      *)
(* rcs counts the Rc<str> allocated by make_symbol.  log is the history    *)
(* of closure creations and calls made by the evaluation in progress.      *)
(***************************************************************************)
ConsCell(first, rest, mark) == [first |-> first, rest |-> rest, mark |-> mark]

\* The slab's occupied entries as an explicit table.
Cells(f) == f @@ <<>>

\* Slab::insert: the most recently vacated entry, or a new entry at the end.
SlabNextKey(h) == IF h.free # <<>> THEN Head(h.free) ELSE h.len

SlabInsert(h, cell) ==
    [h EXCEPT !.cells = (SlabNextKey(h) :> cell) @@ h.cells,
              !.free = IF h.free # <<>> THEN Tail(h.free) ELSE <<>>,
              !.len = IF h.free # <<>> THEN h.len ELSE h.len + 1]

\* The keys Slab::retain vacates, the last vacated first: entries are visited
\* in key order and each one dropped becomes the head of the vacant chain.
Vacated(h) ==
    LET dropped == {k \in DOMAIN h.cells : ~h.cells[k].mark}
    IN  [i \in 1..Cardinality(dropped) |->
            CHOOSE k \in dropped : Cardinality({j \in dropped : j > k}) = i - 1]

\* Slab::retain(|_, c| c.2)
SlabRetain(h) ==
    [h EXCEPT !.cells = Cells([k \in {j \in DOMAIN h.cells : h.cells[j].mark} |-> h.cells[k]]),
              !.free = Vacated(h) \o h.free]

get_first_rest(h, expr) ==
    IF expr.tag = "Pair" THEN Ok(h.cells[expr.num]) ELSE Err("ImproperList")

get_first(h, expr) ==
    IF expr.tag = "Pair" THEN Ok(h.cells[expr.num].first) ELSE Err("ImproperList")

get_rest(h, expr) ==
    IF expr.tag = "Pair" THEN Ok(h.cells[expr.num].rest) ELSE Err("ImproperList")

set_rest(h, expr, v) ==
    IF expr.tag = "Pair"
    THEN HOk([h EXCEPT !.cells[expr.num].rest = v], Nil)
    ELSE HErr(h, "ImproperList")

get_lambda_env(h, expr) ==
    IF expr.tag = "Closure" THEN Ok(h.cells[expr.num].first) ELSE Err("ImproperLambda")

get_lambda_args(h, expr) ==
    IF expr.tag = "Closure"
    THEN get_first(h, h.cells[expr.num].rest)
    ELSE Err("ImproperLambda")

get_lambda_body(h, expr) ==
    IF expr.tag = "Closure"
    THEN get_rest(h, h.cells[expr.num].rest)
    ELSE Err("ImproperLambda")

make_cons(h, first, rest) ==
    HOk(SlabInsert(h, ConsCell(first, rest, FALSE)), Pair(SlabNextKey(h)))

RECURSIVE is_proper_list(_, _)
is_proper_list(h, expr) ==
    CASE is_nil(expr) -> Ok(Boolean(TRUE))
      [] is_pair(expr) -> is_proper_list(h, h.cells[expr.num].rest)
      [] OTHER -> Ok(Boolean(FALSE))

\* Ok(Boolean(b)) or the error of get_rest.
RECURSIVE test_length(_, _, _)
test_length(h, expr, n) ==
    CASE is_nil(expr) -> Ok(Boolean(n = 0))
      [] ~is_nil(expr) /\ n = 0 -> Ok(Boolean(FALSE))
      [] is_pair(expr) /\ n > 0 -> test_length(h, h.cells[expr.num].rest, n - 1)
      [] OTHER -> Err("ImproperList")

(***************************************************************************)
(* Symbol table.                                                           *)
(***************************************************************************)
\* The walk of make_symbol over the list s: the symbol found, Nil when the
\* list ends without one, or the error of get_first_rest.
RECURSIVE FindSymbol(_, _, _)
FindSymbol(h, s, name) ==
    CASE is_nil(s) -> Ok(Nil)
      [] is_pair(s) /\ is_specific_symbol(h.cells[s.num].first, name) ->
            Ok(h.cells[s.num].first)
      [] is_pair(s) /\ ~is_specific_symbol(h.cells[s.num].first, name) ->
            FindSymbol(h, h.cells[s.num].rest, name)
      [] OTHER -> Err("ImproperList")

\* An interner that looks the name up as it is spelt and upper-cases it only
\* when it stores it.
make_symbol_as_spelt(h, raw) ==
    LET found == FindSymbol(h, h.symbols, raw)
    IN  IF ~found.ok THEN HErr(h, found.err)
        ELSE IF ~is_nil(found.val) THEN HOk(h, found.val)
        ELSE LET new_symbol == Symbol(to_ascii_uppercase(raw), h.rcs)
                 c == make_cons([h EXCEPT !.rcs = h.rcs + 1], new_symbol, h.symbols)
             IN  HOk([c.h EXCEPT !.symbols = c.val], new_symbol)

make_symbol(h, raw) ==
    LET name == to_ascii_uppercase(raw)
        found == FindSymbol(h, h.symbols, name)
    IN  IF ~found.ok THEN HErr(h, found.err)
        ELSE IF ~is_nil(found.val) THEN HOk(h, found.val)
        ELSE LET new_symbol == Symbol(name, h.rcs)
                 c == make_cons([h EXCEPT !.rcs = h.rcs + 1], new_symbol, h.symbols)
             IN  HOk([c.h EXCEPT !.symbols = c.val], new_symbol)

(***************************************************************************)
(* parser.rs.  A parse yields Ok(value) or Err(ParseError), the heap it    *)
(* leaves and the tokens it has not consumed.                              *)
(***************************************************************************)
POk(h, v, rest) == [h |-> h, ok |-> TRUE, val |-> v, err |-> "", rest |-> rest]
PErr(h, e, rest) == [h |-> h, ok |-> FALSE, val |-> Nil, err |-> e, rest |-> rest]

RECURSIVE DigitsValue(_, _)
DigitsValue(s, acc) ==
    IF s = "" THEN acc
    ELSE DigitsValue(Tail(s), acc * 10 + (IndexIn(Head(s), Digits) - 1))

\* str::parse::<i64>: an optional sign, then one or more ASCII digits.  (The
\* texts read here stay far inside the range of i64.)
ParseI64(v) ==
    LET signed == v # "" /\ Head(v) \in {"-", "+"}
        body == IF signed THEN Tail(v) ELSE v
    IN  IF body = "" \/ \E i \in 1..Len(body) : ~is_ascii_digit(CharAt(body, i))
        THEN Err("ParseIntError")
        ELSE Ok(Integer(IF signed /\ Head(v) = "-"
                        THEN 0 - DigitsValue(body, 0)
                        ELSE DigitsValue(body, 0)))

parse_value(v, h, rest) ==
    IF starts_with(v, "#")
    THEN IF v = "#f" THEN POk(h, Boolean(FALSE), rest)
         ELSE IF v = "#t" THEN POk(h, Boolean(TRUE), rest)
         ELSE PErr(h, "AmbiguousValue", rest)
    ELSE IF (is_ascii_digit(Head(v)) \/ Head(v) = "-") /\ ParseI64(v).ok
    THEN POk(h, ParseI64(v).val, rest)
    ELSE IF (is_ascii_digit(Head(v)) \/ Head(v) = "-") /\ v # "-"
    THEN PErr(h, "AmbiguousValue", rest)
    ELSE LET s == make_symbol(h, v)
         IN  IF s.ok THEN POk(s.h, s.val, rest) ELSE PErr(s.h, "Panic", rest)

\* heap with a new cell (v . Nil) linked as the rest of result_tail:
\* make_cons followed by set_rest.
LinkNewTail(heap, result_tail, v) ==
    set_rest(make_cons(heap, v, Nil).h, result_tail, make_cons(heap, v, Nil).val).h

RECURSIVE parse_expr(_, _)
RECURSIVE ParseListLoop(_, _, _, _)
RECURSIVE ParseListNext(_, _, _)
RECURSIVE ParseListDotted(_, _, _)

\* The loop of parse_expr after the first element of a list.
ParseListLoop(input, heap, result, result_tail) ==
    CASE input # <<>> /\ Head(input) = RBracket -> POk(heap, result, Tail(input))
      [] input # <<>> /\ Head(input) = Dot ->
            ParseListDotted(parse_expr(Tail(input), heap), result, result_tail)
      [] OTHER -> ParseListNext(parse_expr(input, heap), result, result_tail)

\* The loop body after `let next = parse_expr(input, heap)?` without a dot.
ParseListNext(next, result, result_tail) ==
    IF ~next.ok THEN next
    ELSE ParseListLoop(next.rest, LinkNewTail(next.h, result_tail, next.val),
                       result, Pair(SlabNextKey(next.h)))

\* The loop body after `let next = parse_expr(input, heap)?` with has_dot.
ParseListDotted(next, result, result_tail) ==
    CASE ~next.ok -> next
      [] next.ok /\ next.rest # <<>> /\ Head(next.rest) = RBracket ->
            POk(set_rest(next.h, result_tail, next.val).h, result, Tail(next.rest))
      [] OTHER -> PErr(set_rest(next.h, result_tail, next.val).h, "UnexpectedDot",
                       next.rest)

\* The Tick arm once the quoted expression has been parsed: (QUOTE inner).
ParseQuoted(q, inner) ==
    IF ~inner.ok THEN inner
    ELSE POk(make_cons(make_cons(inner.h, inner.val, Nil).h, q,
                       make_cons(inner.h, inner.val, Nil).val).h,
             make_cons(make_cons(inner.h, inner.val, Nil).h, q,
                       make_cons(inner.h, inner.val, Nil).val).val,
             inner.rest)

\* The LBracket arm once the first element has been parsed.
ParseListFirst(first_expr) ==
    IF ~first_expr.ok THEN first_expr
    ELSE ParseListLoop(first_expr.rest,
                       make_cons(first_expr.h, first_expr.val, Nil).h,
                       make_cons(first_expr.h, first_expr.val, Nil).val,
                       make_cons(first_expr.h, first_expr.val, Nil).val)

parse_expr(input, heap) ==
    CASE input = <<>> -> PErr(heap, "UnexpectedEndOfInput", input)
      [] input # <<>> /\ Head(input).t = "Value" ->
            parse_value(Head(input).s, heap, Tail(input))
      [] input # <<>> /\ Head(input).t = "Dot" ->
            PErr(heap, "UnexpectedDot", Tail(input))
      [] input # <<>> /\ Head(input).t = "Tick" ->
            ParseQuoted(make_symbol(heap, "QUOTE").val,
                        parse_expr(Tail(input), make_symbol(heap, "QUOTE").h))
      [] input # <<>> /\ Head(input).t = "LBracket"
             /\ Len(input) > 1 /\ input[2] = RBracket ->
            POk(heap, Nil, SubSeq(input, 3, Len(input)))
      [] input # <<>> /\ Head(input).t = "LBracket"
             /\ ~(Len(input) > 1 /\ input[2] = RBracket) ->
            ParseListFirst(parse_expr(Tail(input), heap))
      [] input # <<>> /\ Head(input).t = "RBracket" ->
            PErr(heap, "UnmatchedBracket", Tail(input))

(***************************************************************************)
(* Closures and environments.                                              *)
(***************************************************************************)
\* The check of make_closure that every parameter is a symbol.
RECURSIVE CheckParams(_, _)
CheckParams(h, v) ==
    CASE is_nil(v) -> Ok(Nil)
      [] is_pair(v) /\ is_symbol(h.cells[v.num].first) ->
            CheckParams(h, h.cells[v.num].rest)
      [] is_pair(v) /\ ~is_symbol(h.cells[v.num].first) -> Err("ImproperSymbol")
      [] OTHER -> Err("ImproperList")

make_closure(h, env, arg_list, body) ==
    LET checked == CheckParams(h, arg_list)
    IN  IF ~checked.ok THEN HErr(h, checked.err)
        ELSE LET tail == make_cons(h, arg_list, body)
                 cell == make_cons(tail.h, env, tail.val)
             IN  HOk(cell.h, Closure(cell.val.num))

make_env(h, parent) == make_cons(h, parent, Nil)

\* The scan of a frame's bindings shared by env_get and env_set: the
\* (name . value) pair whose key equals name, Nil when there is none.
RECURSIVE FindBinding(_, _, _)
\* `first.is_pair()` and the key of that pair equals name.
IsBindingOf(h, binding, name) ==
    is_pair(binding) /\ ExprEq(h.cells[binding.num].first, name)

FindBinding(h, e, name) ==
    CASE is_nil(e) -> Ok(Nil)
      [] is_pair(e) /\ IsBindingOf(h, h.cells[e.num].first, name) ->
            Ok(h.cells[e.num].first)
      [] is_pair(e) /\ ~IsBindingOf(h, h.cells[e.num].first, name) ->
            FindBinding(h, h.cells[e.num].rest, name)
      [] OTHER -> Err("ImproperList")

RECURSIVE env_get(_, _, _)
RECURSIVE EnvGetFound(_, _, _, _)
\* env_get once the scan of env's own bindings has ended with found.
EnvGetFound(h, parent, name, found) ==
    CASE ~found.ok -> found
      [] found.ok /\ ~is_nil(found.val) -> get_rest(h, found.val)
      [] found.ok /\ is_nil(found.val) /\ is_nil(parent) -> Err("UnboundSymbol")
      [] found.ok /\ is_nil(found.val) /\ is_pair(parent) -> env_get(h, parent, name)
      [] OTHER -> Err("ImproperEnvironment")

env_get(h, env, name) ==
    CASE ~is_pair(env) -> Err("ImproperEnvironment")
      [] is_pair(env) /\ ~is_symbol(name) -> Err("ImproperSymbol")
      [] OTHER -> EnvGetFound(h, h.cells[env.num].first, name,
                              FindBinding(h, h.cells[env.num].rest, name))

\* An env_set that never looks for an existing binding: it always prepends.
env_set_prepend(h, env, name, val) ==
    IF ~is_pair(env) THEN HErr(h, "ImproperEnvironment")
    ELSE IF ~is_symbol(name) THEN HErr(h, "ImproperSymbol")
    ELSE LET new_pair == make_cons(h, name, val)
             new_bindings == make_cons(new_pair.h, new_pair.val, h.cells[env.num].rest)
         IN  set_rest(new_bindings.h, env, new_bindings.val)

env_set(h, env, name, val) ==
    IF ~is_pair(env) THEN HErr(h, "ImproperEnvironment")
    ELSE IF ~is_symbol(name) THEN HErr(h, "ImproperSymbol")
    ELSE LET bindings == h.cells[env.num].rest
             found == FindBinding(h, bindings, name)
         IN  IF ~found.ok THEN HErr(h, found.err)
             ELSE IF ~is_nil(found.val) THEN set_rest(h, found.val, val)
             ELSE LET new_pair == make_cons(h, name, val)
                      new_bindings == make_cons(new_pair.h, new_pair.val, bindings)
                  IN  set_rest(new_bindings.h, env, new_bindings.val)

(***************************************************************************)
(* primitive.rs                                                            *)
(***************************************************************************)
validate_arg_count(h, args, n) ==
    LET t == test_length(h, args, n)
    IN  IF ~t.ok THEN t
        ELSE IF t.val.num = 0 THEN Err("WrongNumberOfArgs")
        ELSE Ok(Nil)

first(args, h) ==
    LET v == validate_arg_count(h, args, 1)
    IN  IF ~v.ok THEN v
        ELSE LET arg == get_first(h, args)
             IN  IF ~arg.ok THEN arg ELSE get_first(h, arg.val)

rest(args, h) ==
    LET v == validate_arg_count(h, args, 1)
    IN  IF ~v.ok THEN v
        ELSE LET arg == get_first(h, args)
             IN  IF ~arg.ok THEN arg ELSE get_rest(h, arg.val)

list_p(args, h) ==
    LET v == validate_arg_count(h, args, 1)
    IN  IF ~v.ok THEN v
        ELSE LET arg == get_first(h, args)
             IN  IF ~arg.ok THEN arg ELSE is_proper_list(h, arg.val)

cons(args, h) ==
    LET v == validate_arg_count(h, args, 2)
    IN  IF ~v.ok THEN HErr(h, v.err)
        ELSE make_cons(h, h.cells[args.num].first,
                       h.cells[h.cells[args.num].rest.num].first)

as_integer(expr) ==
    IF expr.tag = "Integer" THEN Ok(expr) ELSE Err("TypeError")

\* i64 division truncates toward zero.
TruncDiv(a, b) ==
    LET abs(x) == IF x < 0 THEN 0 - x ELSE x
        q == abs(a) \div abs(b)
    IN  IF (a < 0) # (b < 0) THEN 0 - q ELSE q

\* The closures handed to do_arithmetic.  Division by zero panics.  (The
\* operands read here stay far inside the range of i64.)
bin_op(name, a, b) ==
    CASE name = "+" -> Ok(Integer(a + b))
      [] name = "-" -> Ok(Integer(a - b))
      [] name = "*" -> Ok(Integer(a * b))
      [] name = "/" -> IF b = 0 THEN Err("Panic") ELSE Ok(Integer(TruncDiv(a, b)))

\* One identity, that of the sum, for all four primitives.
identity_of_sum(name) == 0

identity(name) == IF name \in {"+", "-"} THEN 0 ELSE 1

\* The fold of do_arithmetic over the operands after the first; result is
\* the value folded so far, or the panic of bin_op.
RECURSIVE ArithFold(_, _, _, _)
ArithFold(h, name, result, v) ==
    CASE ~result.ok -> result
      [] result.ok /\ is_nil(v) -> result
      [] result.ok /\ is_pair(v) /\ ~as_integer(h.cells[v.num].first).ok ->
            Err("TypeError")
      [] result.ok /\ is_pair(v) /\ as_integer(h.cells[v.num].first).ok ->
            ArithFold(h, name,
                      bin_op(name, result.val.num, h.cells[v.num].first.num),
                      h.cells[v.num].rest)
      [] OTHER -> Err("ImproperList")

do_arithmetic(args, h, name) ==
    IF is_nil(args) THEN Err("WrongNumberOfArgs")
    ELSE IF ~is_pair(args) THEN Err("ImproperList")
    ELSE LET n == as_integer(h.cells[args.num].first)
         IN  IF is_nil(h.cells[args.num].rest)
             THEN IF ~n.ok THEN n ELSE bin_op(name, identity(name), n.val.num)
             ELSE IF ~n.ok THEN n
             ELSE ArithFold(h, name, n, h.cells[args.num].rest)

pred(name, a, b) ==
    CASE name = "=" -> a = b
      [] name = "<" -> a < b
      [] name = "<=" -> a <= b
      [] name = ">" -> a > b
      [] name = ">=" -> a >= b

do_predicate(args, h, name) ==
    LET v == validate_arg_count(h, args, 2)
    IN  IF ~v.ok THEN v
        ELSE LET arg1 == as_integer(h.cells[args.num].first)
                 arg2 == as_integer(h.cells[h.cells[args.num].rest.num].first)
             IN  IF ~arg1.ok THEN arg1
                 ELSE IF ~arg2.ok THEN arg2
                 ELSE Ok(Boolean(pred(name, arg1.val.num, arg2.val.num)))

\* The names add_primitives registers, in its order.
PrimitiveNames ==
    <<"first", "rest", "list?", "cons", "+", "-", "*", "/", "=", "<", "<=", ">", ">=">>

\* (p.func)(args, heap): the native function registered under name.
CallPrimitive(name, args, h) ==
    CASE name = "first" -> WithHeap(h, first(args, h))
      [] name = "rest" -> WithHeap(h, rest(args, h))
      [] name = "list?" -> WithHeap(h, list_p(args, h))
      [] name = "cons" -> cons(args, h)
      [] name \in {"+", "-", "*", "/"} -> WithHeap(h, do_arithmetic(args, h, name))
      [] OTHER -> WithHeap(h, do_predicate(args, h, name))

add_primitive(h, name) ==
    LET sym == make_symbol(h, name)
    IN  env_set(sym.h, sym.h.root_env, sym.val, Primitive(name))

\* add_primitives from the i-th name on; `?` returns the first error.
RECURSIVE AddPrimitivesFrom(_, _)
AddPrimitivesFrom(r, i) ==
    CASE ~r.ok -> r
      [] r.ok /\ i > Len(PrimitiveNames) -> r
      [] OTHER -> AddPrimitivesFrom(add_primitive(r.h, PrimitiveNames[i]), i + 1)

add_primitives(h) == AddPrimitivesFrom(HOk(h, Nil), 1)

\* Heap::new
HeapNew ==
    LET me == [symbols |-> Nil, root_env |-> Nil, cells |-> <<>>,
               free |-> <<>>, len |-> 0, rcs |-> 0, log |-> <<>>]
        env == make_env(me, Nil)
    IN  add_primitives([env.h EXCEPT !.root_env = env.val]).h

(***************************************************************************)
(* The evaluator.  d is the room left on the native stack, counted in      *)
(* nested eval_in calls.                                                   *)
(***************************************************************************)
\* An entry of the history: "lambda" (a closure clo was made in env), "call"
\* (eval_in in env applies the operator clo to the evaluated list args),
\* "apply" (apply allocated the frame env for the closure clo) or "define"
\* (DEFINE bound the symbol clo to args in env), "eval" (eval_in entered the
\* Pair arm for the form clo in env) or "done" (that eval_in returned Ok(args)).
Event(ev, env, clo, args) == [ev |-> ev, env |-> env, clo |-> clo, args |-> args]
Log(h, ev, env, clo, args) == [h EXCEPT !.log = Append(@, Event(ev, env, clo, args))]

\* The special-form arity test: Ok(Nil) when args has exactly n elements.
Arity(h, args, n) ==
    LET t == test_length(h, args, n)
    IN  IF ~t.ok THEN t
        ELSE IF t.val.num = 0 THEN Err("WrongNumberOfArgs")
        ELSE Ok(Nil)

RECURSIVE eval_in(_, _, _, _)
RECURSIVE map_list(_, _, _, _)
RECURSIVE MapListLoop(_, _, _, _, _, _)
RECURSIVE MapListNext(_, _, _, _, _, _)
RECURSIVE apply(_, _, _, _)
RECURSIVE EvalBody(_, _, _, _, _)
RECURSIVE EvalBodyNext(_, _, _, _)

\* The loop of apply that binds each parameter to its argument in env; bound
\* is the outcome of the env_set of the previous round.
RECURSIVE BindParams(_, _, _, _)
BindParams(bound, env, param_list, arg_list) ==
    CASE ~bound.ok -> bound
      [] bound.ok /\ is_nil(param_list) /\ is_nil(arg_list) -> bound
      [] bound.ok /\ is_nil(param_list) /\ ~is_nil(arg_list) ->
            HErr(bound.h, "WrongNumberOfArgs")
      [] bound.ok /\ ~is_nil(param_list) /\ is_nil(arg_list) ->
            HErr(bound.h, "WrongNumberOfArgs")
      [] bound.ok /\ is_pair(param_list) /\ is_pair(arg_list) ->
            BindParams(env_set(bound.h, env, bound.h.cells[param_list.num].first,
                               bound.h.cells[arg_list.num].first),
                       env, bound.h.cells[param_list.num].rest,
                       bound.h.cells[arg_list.num].rest)
      [] OTHER -> HErr(bound.h, "ImproperList")

\* The loop of apply over the body forms; result is the last value.
EvalBody(h, env, body, result, d) ==
    CASE is_nil(body) -> HOk(h, result)
      [] is_pair(body) ->
            EvalBodyNext(eval_in(h, env, h.cells[body.num].first, d), env, body, d)
      [] OTHER -> HErr(h, "ImproperList")

\* The body loop after `result = self.eval_in(&env, &form)?`.
EvalBodyNext(r, env, body, d) ==
    IF ~r.ok THEN r ELSE EvalBody(r.h, env, r.h.cells[body.num].rest, r.val, d)

\* A frame whose parent is the root environment whatever the closure captured.
RootFrame(h, op) == make_env(h, h.root_env)

\* The frame apply allocates for a call of the closure op.
CallFrame(h, op) == make_env(h, get_lambda_env(h, op).val)

\* The Closure arm of apply once the frame env has been allocated.
ApplyClosure(h, env, op, args, d) ==
    CASE ~get_lambda_args(h, op).ok -> HErr(h, get_lambda_args(h, op).err)
      [] get_lambda_args(h, op).ok
             /\ ~BindParams(HOk(h, Nil), env, get_lambda_args(h, op).val, args).ok ->
            BindParams(HOk(h, Nil), env, get_lambda_args(h, op).val, args)
      [] OTHER ->
            EvalBody(BindParams(HOk(h, Nil), env, get_lambda_args(h, op).val, args).h,
                     env, get_lambda_body(h, op).val, Nil, d)

apply(h, op, args, d) ==
    CASE op.tag = "Primitive" -> CallPrimitive(op.str, args, h)
      [] op.tag = "Closure" ->
            ApplyClosure(Log(CallFrame(h, op).h, "apply", CallFrame(h, op).val, op, args),
                         CallFrame(h, op).val, op, args, d)
      [] OTHER -> HErr(h, "NotCallable")

\* The loop of map_list after the first element, with func = eval_in(env, _).
MapListLoop(h, env, rest_, result, result_tail, d) ==
    CASE is_nil(rest_) -> HOk(h, result)
      [] is_pair(rest_) ->
            MapListNext(eval_in(h, env, h.cells[rest_.num].first, d), env,
                        h.cells[rest_.num].rest, result, result_tail, d)
      [] OTHER -> HErr(h, "ImproperList")

\* The loop body after `let val = func(self, &first)?`.
MapListNext(val, env, rest_, result, result_tail, d) ==
    IF ~val.ok THEN val
    ELSE MapListLoop(LinkNewTail(val.h, result_tail, val.val), env, rest_, result,
                     Pair(SlabNextKey(val.h)), d)

\* map_list after `let val = func(self, &first)?` for the first element.
MapListFirst(val, env, rest_, d) ==
    IF ~val.ok THEN val
    ELSE MapListLoop(make_cons(val.h, val.val, Nil).h, env, rest_,
                     make_cons(val.h, val.val, Nil).val,
                     make_cons(val.h, val.val, Nil).val, d)

map_list(h, env, list, d) ==
    CASE is_nil(list) -> HOk(h, Nil)
      [] is_pair(list) ->
            MapListFirst(eval_in(h, env, h.cells[list.num].first, d), env,
                         h.cells[list.num].rest, d)
      [] OTHER -> HErr(h, "ImproperList")

\* The LAMBDA branch of eval_in.
EvalLambda(h, env, args) ==
    LET n == Arity(h, args, 2)
    IN  IF ~n.ok THEN HErr(h, n.err)
        ELSE LET arg_list == h.cells[args.num].first
                 body == h.cells[args.num].rest
                 c == make_closure(h, env, arg_list, body)
             IN  IF ~c.ok THEN c ELSE HOk(Log(c.h, "lambda", env, c.val, Nil), c.val)

\* A DEFINE that binds its symbol to Nil when the value's evaluation fails.
DefineAnyway(val, env, sym) ==
    CASE ~val.ok -> [val EXCEPT !.h = env_set(val.h, env, sym, Nil).h]
      [] val.ok /\ ~env_set(val.h, env, sym, val.val).ok ->
            env_set(val.h, env, sym, val.val)
      [] OTHER -> HOk(Log(env_set(val.h, env, sym, val.val).h, "define", env, sym,
                          val.val), sym)

\* DEFINE after `let val = self.eval_in(env, &rexpr)?`: env_set, then Ok(sym).
DefineValue(val, env, sym) ==
    CASE ~val.ok -> val
      [] val.ok /\ ~env_set(val.h, env, sym, val.val).ok ->
            env_set(val.h, env, sym, val.val)
      [] OTHER -> HOk(Log(env_set(val.h, env, sym, val.val).h, "define", env, sym,
                          val.val), sym)

\* The DEFINE branch of eval_in.
EvalDefine(h, env, args, d) ==
    CASE ~Arity(h, args, 2).ok -> HErr(h, Arity(h, args, 2).err)
      [] Arity(h, args, 2).ok /\ ~is_symbol(h.cells[args.num].first) ->
            HErr(h, "ImproperSymbol")
      [] OTHER ->
            DefineValue(eval_in(h, env, h.cells[h.cells[args.num].rest.num].first, d),
                        env, h.cells[args.num].first)

\* IF after `let t = self.eval_in(env, &test_expr)?`.
IfBranch(t, env, true_expr, false_expr, d) ==
    CASE ~t.ok -> t
      [] t.ok /\ is_truthy(t.val) -> eval_in(t.h, env, true_expr, d)
      [] t.ok /\ ~is_truthy(t.val) -> eval_in(t.h, env, false_expr, d)

\* The IF branch of eval_in.
EvalIf(h, env, args, d) ==
    IF ~Arity(h, args, 3).ok THEN HErr(h, Arity(h, args, 3).err)
    ELSE IfBranch(eval_in(h, env, h.cells[args.num].first, d), env,
                  h.cells[h.cells[args.num].rest.num].first,
                  h.cells[h.cells[h.cells[args.num].rest.num].rest.num].first, d)

\* The QUOTE branch of eval_in.
EvalQuote(h, args) ==
    LET n == Arity(h, args, 1)
    IN  IF ~n.ok THEN HErr(h, n.err) ELSE HOk(h, h.cells[args.num].first)

\* The application branch after the arguments have been evaluated.
ApplyArgs(env, op, args, d) ==
    IF ~args.ok THEN args
    ELSE apply(Log(args.h, "call", env, op, args.val), op, args.val, d)

\* The application branch after the head has been evaluated.
ApplyOp(env, op, tail, d) ==
    IF ~op.ok THEN op
    ELSE ApplyArgs(env, op.val, map_list(op.h, env, tail, d), d)

\* An application that evaluates its arguments before its operator.
EvalArgsFirst(h, env, head, tail, d) ==
    LET a == map_list(h, env, tail, d)
        op == eval_in(a.h, env, head, d)
    IN  IF ~a.ok THEN a
        ELSE IF ~op.ok THEN op
        ELSE apply(Log(op.h, "call", env, op.val, a.val), op.val, a.val, d)

\* The application branch of eval_in.
EvalApplication(h, env, head, tail, d) ==
    ApplyOp(env, eval_in(h, env, head, d), tail, d)

\* The Pair arm of eval_in, on first = head and rest = tail.
EvalPair(h, env, head, tail, d) ==
    CASE is_specific_symbol(head, "QUOTE") -> EvalQuote(h, tail)
      [] is_specific_symbol(head, "DEFINE") -> EvalDefine(h, env, tail, d)
      [] is_specific_symbol(head, "IF") -> EvalIf(h, env, tail, d)
      [] is_specific_symbol(head, "LAMBDA") -> EvalLambda(h, env, tail)
      [] OTHER -> EvalApplication(h, env, head, tail, d)

\* The Pair arm of eval_in has returned r for the form expr.
EvalDone(r, env, expr) ==
    IF r.ok THEN WithHeap(Log(r.h, "done", env, expr, r.val), r) ELSE r

eval_in(h, env, expr, d) ==
    CASE d = 0 -> HErr(h, "StackOverflow")
      [] d > 0 /\ expr.tag \in {"Nil", "Boolean", "Integer", "Closure", "Primitive"} ->
            HOk(h, expr)
      [] d > 0 /\ expr.tag = "Symbol" -> WithHeap(h, env_get(h, env, expr))
      [] d > 0 /\ expr.tag = "Pair" ->
            EvalDone(EvalPair(Log(h, "eval", env, expr, Nil), env,
                              h.cells[expr.num].first, h.cells[expr.num].rest, d - 1),
                     env, expr)

\* Heap::eval
eval(h, expr) == eval_in(h, h.root_env, expr, MaxDepth)

(***************************************************************************)
(* The printer.                                                            *)
(***************************************************************************)
RECURSIVE NatToString(_)
NatToString(n) ==
    IF n < 10 THEN CharAt(Digits, n + 1)
    ELSE NatToString(n \div 10) \o CharAt(Digits, (n % 10) + 1)

\* A printer of integers that leaves the sign out.
to_string_magnitude(n) == IF n < 0 THEN NatToString(0 - n) ELSE NatToString(n)

\* i64::to_string
to_string(n) == IF n < 0 THEN "-" \o NatToString(0 - n) ELSE NatToString(n)

RECURSIVE format_expr_inner(_, _)
RECURSIVE FormatPairLoop(_, _, _)

\* The loop of format_expr_inner over a pair chain, from the element first_
\* and what follows it, rest_.
FormatPairLoop(h, first_, rest_) ==
    CASE is_nil(rest_) -> format_expr_inner(h, first_)
      [] is_pair(rest_) ->
            format_expr_inner(h, first_) \o " "
                \o FormatPairLoop(h, h.cells[rest_.num].first, h.cells[rest_.num].rest)
      [] OTHER -> format_expr_inner(h, first_) \o " . " \o format_expr_inner(h, rest_)

format_expr_inner(h, expr) ==
    CASE expr.tag = "Nil" -> "()"
      [] expr.tag = "Boolean" -> IF expr.num = 0 THEN "#f" ELSE "#t"
      [] expr.tag = "Integer" -> to_string(expr.num)
      [] expr.tag = "Symbol" -> expr.str
      [] expr.tag = "Closure" -> "#<lambda>"
      [] expr.tag = "Primitive" -> "#<primitive " \o expr.str \o ">"
      [] expr.tag = "Pair" ->
            "(" \o FormatPairLoop(h, h.cells[expr.num].first,
                                  h.cells[expr.num].rest) \o ")"

format_expr(h, expr) == format_expr_inner(h, expr)

(***************************************************************************)
(* The collector.                                                          *)
(***************************************************************************)
\* A collector without its first loop: the marks of the last collection stay.
KeepMarks(h) == h

\* The first loop of collect.
ClearMarks(h) ==
    [h EXCEPT !.cells = Cells([k \in DOMAIN h.cells |->
                                  [h.cells[k] EXCEPT !.mark = FALSE]])]

\* A collector that traces through Pair alone.
IsTracedPair(ex) == ex.tag = "Pair"

\* The values collect traces through: `if let Expr::Pair(n) | Expr::Closure(n)`.
IsTraced(ex) == ex.tag \in {"Pair", "Closure"}

\* The two roots collect seeds the worklist with.
Roots(h) == {h.symbols, h.root_env}

\* The marking loop.  The marks it leaves do not depend on the order in
\* which the worklist is drained, so it is drained a generation at a time:
\* every traced value on the worklist whose cell is unmarked is marked, and
\* the first and rest of those cells are the next worklist.
\* The keys of the unmarked cells the values of worklist refer to.
Unmarked(h, worklist) ==
    {ex.num : ex \in {w \in worklist : IsTraced(w) /\ ~h.cells[w.num].mark}}

\* `cell.2 = true` for every cell of keys.
SetMarks(h, keys) ==
    [h EXCEPT !.cells = Cells([k \in DOMAIN h.cells |->
                                  IF k \in keys THEN [h.cells[k] EXCEPT !.mark = TRUE]
                                  ELSE h.cells[k]])]

RECURSIVE Mark(_, _)
Mark(h, worklist) ==
    IF Unmarked(h, worklist) = {} THEN h
    ELSE Mark(SetMarks(h, Unmarked(h, worklist)),
              {h.cells[k].first : k \in Unmarked(h, worklist)}
                  \cup {h.cells[k].rest : k \in Unmarked(h, worklist)})

\* cells.retain(|_, c| c.2)
Sweep(h) == SlabRetain(h)

collect(h) == Sweep(Mark(ClearMarks(h), Roots(h)))

(***************************************************************************)
(* The REPL driver, main.  The lines standard input may deliver:           *)
(***************************************************************************)
Lines ==
    { "(define x 3) (+ x X)",
      "(define make-adder (lambda (k) (lambda (n) (+ n k)))) (define add5 (make-adder 5)) (add5 10)",
      "(define k 100) ((lambda (k) (add5 10)) 1)",
      "(define loop (lambda (n) (if (= n 0) 'done (loop (- n 1))))) (loop 2)",
      "((lambda (x) (define f (lambda () x))) 2) (define y (first 1)) (define z (+ (define z 1) #t))",
      "((lambda (k) (define k 7)) 1) k",
      "(define x (cons 1 '(2 . 3))) (rest x)",
      "(lambda (n) 1 n) ((lambda (n) n) 5) (first 1) (rest '()) (+ 1 #t) (< 'a 1) (/ 7 -2)",
      "(Loop 1) ADD5 (if #f 1)",
      ")",
      "'(a . )",
      "'(a . b c)",
      "( . a)",
      ". a",
      "'(a b . c) #x" }

VARIABLES
    heap,          \* main's Heap
    pc,            \* where main is: "read", "peek", "eval", or ended
    token_stream,  \* the tokens of the current line not yet parsed
    expr,          \* the expression parse_expr returned
    result,        \* what heap.eval(&expr) returned
    stdout,        \* the lines printed for the current expression
    lines_read     \* how many lines have been read

vars == <<heap, pc, token_stream, expr, result, stdout, lines_read>>

Init ==
    /\ heap = HeapNew
    /\ pc = "read"
    /\ token_stream = <<>>
    /\ expr = Nil
    /\ result = Ok(Nil)
    /\ stdout = <<>>
    /\ lines_read = 0

\* `while let Some(res) = stdin.lines().next()`: a line arrives and is tokenized.
ReadLine ==
    /\ pc = "read"
    /\ lines_read < MaxLines
    /\ \E line \in Lines : token_stream' = tokenize(line)
    /\ lines_read' = lines_read + 1
    /\ pc' = "peek"
    /\ UNCHANGED <<heap, expr, result, stdout>>

\* Standard input closes: the loop and the process end.
EndOfInput ==
    /\ pc = "read"
    /\ pc' = "exit"
    /\ UNCHANGED <<heap, token_stream, expr, result, stdout, lines_read>>

\* `parse_expr(&mut token_stream, &mut heap).unwrap()` and the println of
\* the expression read; the unwrap panics on a parse error.
Parse ==
    /\ pc = "peek"
    /\ token_stream # <<>>
    /\ LET p == parse_expr(token_stream, heap)
       IN  /\ heap' = p.h
           /\ token_stream' = p.rest
           /\ IF p.ok
              THEN /\ expr' = p.val
                   /\ stdout' = <<"in:  " \o format_expr(p.h, p.val)>>
                   /\ pc' = "eval"
              ELSE /\ expr' = Nil
                   /\ stdout' = <<"panicked: " \o p.err>>
                   /\ pc' = "panicked"
    /\ UNCHANGED <<result, lines_read>>

\* `match heap.eval(&expr)` and the println of its outcome.  The history
\* kept in the heap starts afresh with each evaluation.
Eval ==
    /\ pc = "eval"
    /\ LET r == eval([heap EXCEPT !.log = <<>>], expr)
       IN  /\ heap' = r.h
           /\ result' = Result(r)
           /\ IF r.ok
              THEN /\ stdout' = Append(stdout, "out: " \o format_expr(r.h, r.val))
                   /\ pc' = "peek"
              ELSE IF r.err \in {"Panic", "StackOverflow"}
              THEN /\ stdout' = Append(stdout, "panicked: " \o r.err)
                   /\ pc' = "panicked"
              ELSE /\ stdout' = Append(stdout, "err: " \o r.err)
                   /\ pc' = "peek"
    /\ UNCHANGED <<token_stream, expr, lines_read>>

\* The line is exhausted: `heap.collect()`, then back to reading.  The
\* history refers to cells by key, so it is dropped with the collection.
Collect ==
    /\ pc = "peek"
    /\ token_stream = <<>>
    /\ heap' = collect([heap EXCEPT !.log = <<>>])
    /\ expr' = Nil
    /\ result' = Ok(Nil)
    /\ stdout' = <<>>
    /\ pc' = "read"
    /\ UNCHANGED <<token_stream, lines_read>>

Next == ReadLine \/ EndOfInput \/ Parse \/ Eval \/ Collect

Spec == Init /\ [][Next]_vars

\* A second set of lines standard input may deliver, and the driver on them.
FormLines ==
    { "((lambda (p q) q) (define a 1) (define a (+ a 1))) a",
      "(cons (first 1) (define e 1)) e",
      "(if (define t 1) (define u 1) (define w 1)) (if (= 1 2) (define u 2) (define w 2))",
      "(define f (lambda (n) (if (= n 0) 0 (+ n (f (- n 1)))))) (f 2)",
      "'(a (b . -3) #t #f () . c) '(x . (y . (Z . ()))) -12 a.b'c",
      "'(1 ''q -) (+5 . 07) (() . ()) #f",
      "(+) (-) (*) (/) (- 5) (/ 4) (+ 5) (* 5) (/ -1) (/ 1) (- -3)",
      "(- 10 2 3) (/ -7 2) (* 2 -3 4) (/ 20 2 5) (/ 7 -2) (+ 1 2 3) (/ -9 -2) (- 2 5)" }

ReadFormLine ==
    /\ pc = "read"
    /\ lines_read < MaxLines
    /\ \E line \in FormLines : token_stream' = tokenize(line)
    /\ lines_read' = lines_read + 1
    /\ pc' = "peek"
    /\ UNCHANGED <<heap, expr, result, stdout>>

FormNext == ReadFormLine \/ EndOfInput \/ Parse \/ Eval \/ Collect

FormSpec == Init /\ [][FormNext]_vars

(***************************************************************************)
(* Properties of the collector.                                            *)
(***************************************************************************)
\* The arena keys the values of vals refer to.
KeysOf(vals) == {v.num : v \in {w \in vals : w.tag \in {"Pair", "Closure"}}}

\* The keys reachable from frontier by following first and rest.
RECURSIVE ReachableKeys(_, _, _)
ReachableKeys(h, seen, frontier) ==
    IF frontier \subseteq seen THEN seen
    ELSE ReachableKeys(h, seen \cup frontier,
                       KeysOf({h.cells[k].first : k \in frontier \ seen}
                                  \cup {h.cells[k].rest : k \in frontier \ seen}))

\* The keys reachable from heap.symbols or heap.root_env.
RootReachable(h) == ReachableKeys(h, {}, KeysOf({h.symbols, h.root_env}))

\* The elements of the pair chain l, in order.
RECURSIVE ListToSeq(_, _)
ListToSeq(h, l) ==
    CASE is_pair(l) -> <<h.cells[l.num].first>> \o ListToSeq(h, h.cells[l.num].rest)
      [] OTHER -> <<>>

\* C1: in every heap the driver reaches, collect() keeps each cell reachable
\* from the symbol list or the root environment under its key with the same
\* first and rest, leaves both roots as they are, and every reachable value
\* prints as it did before the collection.
CollectKeepsReachable ==
    LET g == collect(heap)
    IN  /\ g.symbols = heap.symbols
        /\ g.root_env = heap.root_env
        /\ \A k \in RootReachable(heap) :
              /\ k \in DOMAIN g.cells
              /\ g.cells[k].first = heap.cells[k].first
              /\ g.cells[k].rest = heap.cells[k].rest
              /\ format_expr(g, Pair(k)) = format_expr(heap, Pair(k))

\* A collection has just dropped cells and a closure bound in an environment
\* is among the cells it kept.
CollectKeptClosure ==
    /\ pc = "read"
    /\ lines_read > 0
    /\ heap.free # <<>>
    /\ \E k \in RootReachable(heap) : heap.cells[k].rest.tag = "Closure"

\* C2: collect() leaves no cell that is unreachable from the symbol list and
\* the root environment, in any heap the driver reaches; so the arena holds
\* reachable cells only whenever the driver is back at reading a line.
CollectLeavesOnlyReachable ==
    /\ DOMAIN collect(heap).cells \subseteq RootReachable(heap)
    /\ pc = "read" => DOMAIN heap.cells \subseteq RootReachable(heap)

\* The line is exhausted and the arena holds an unreachable closure that is
\* bound in the very frame it captured (a cycle), which collect() drops.
CollectDropsCycle ==
    /\ pc = "peek"
    /\ token_stream = <<>>
    /\ \E c \in DOMAIN heap.cells \ RootReachable(heap) :
          /\ \E b \in DOMAIN heap.cells : heap.cells[b].rest = Closure(c)
          /\ c \in ReachableKeys(heap, {}, KeysOf({heap.cells[c].first}))
          /\ c \notin DOMAIN collect(heap).cells

(***************************************************************************)
(* Properties of the driver and of the forms it accepts.                   *)
(***************************************************************************)
\* C3: no error ends the driver: after any error it goes on with the input.
ErrorsNeverEndTheDriver == pc # "panicked"

\* e is a form (LAMBDA params f1 ... fn) with n >= 1 and params a list of
\* symbols.
IsLambdaForm(h, e) ==
    /\ is_pair(e)
    /\ is_specific_symbol(h.cells[e.num].first, "LAMBDA")
    /\ is_pair(h.cells[e.num].rest)
    /\ is_pair(h.cells[h.cells[e.num].rest.num].rest)
    /\ is_proper_list(h, h.cells[e.num].rest).val = Boolean(TRUE)
    /\ CheckParams(h, h.cells[h.cells[e.num].rest.num].first).ok

\* C4: a LAMBDA form with one or more body forms evaluates to a closure.
LambdaAcceptsBodyForms ==
    (pc = "peek" /\ Len(stdout) = 2 /\ IsLambdaForm(heap, expr))
        => result.ok /\ result.val.tag = "Closure"

\* The place of the first Dot of ts when ts opens a list (quoted or not) of
\* one or more atoms followed by that Dot; 0 otherwise.
TailDot(ts) ==
    LET open == IF ts # <<>> /\ Head(ts) = Tick THEN 2 ELSE 1
        dots == {i \in 1..Len(ts) : ts[i] = Dot}
        d == IF dots = {} THEN 0 ELSE CHOOSE i \in dots : \A j \in dots : i <= j
    IN  IF /\ d > open + 1
           /\ ts[open] = LBracket
           /\ \A i \in (open + 1)..(d - 1) : ts[i].t = "Value"
        THEN d ELSE 0

\* C5: a Dot at top level, directly after `(`, directly before `)`, or
\* followed by more than one expression is UnexpectedDot; a Dot in tail
\* position followed by one expression and `)` is accepted.
MisplacedDotIsUnexpectedDot ==
    (pc = "peek" /\ token_stream # <<>>) =>
        LET ts == token_stream
            p == parse_expr(ts, heap)
            d == TailDot(ts)
        IN  /\ Head(ts) = Dot => ~p.ok /\ p.err = "UnexpectedDot"
            /\ (Len(ts) > 1 /\ ts[1] = LBracket /\ ts[2] = Dot)
                   => ~p.ok /\ p.err = "UnexpectedDot"
            /\ (d > 0 /\ Len(ts) > d /\ ts[d + 1] = RBracket)
                   => ~p.ok /\ p.err = "UnexpectedDot"
            /\ (d > 0 /\ Len(ts) > d + 1 /\ ts[d + 1].t = "Value"
                      /\ ts[d + 2].t = "Value")
                   => ~p.ok /\ p.err = "UnexpectedDot"
            /\ (d > 0 /\ Len(ts) > d + 1 /\ ts[d + 1].t = "Value"
                      /\ ts[d + 2] = RBracket)
                   => p.ok

\* The call e hands a primitive an operand of the wrong tag: first or rest
\* one operand that is no pair, an arithmetic or comparison primitive an
\* operand that is no integer.
WrongTagOperand(h, e) ==
    /\ e.ev = "call"
    /\ e.clo.tag = "Primitive"
    /\ LET a == ListToSeq(h, e.args)
       IN  \/ /\ e.clo.str \in {"first", "rest"}
              /\ Len(a) = 1
              /\ a[1].tag # "Pair"
           \/ /\ e.clo.str \in {"+", "-", "*", "/"}
              /\ Len(a) >= 1
              /\ \E i \in 1..Len(a) : a[i].tag # "Integer"
           \/ /\ e.clo.str \in {"=", "<", "<=", ">", ">="}
              /\ Len(a) = 2
              /\ \E i \in 1..Len(a) : a[i].tag # "Integer"

\* C6: an evaluation whose last call hands a primitive an operand of the
\* wrong tag fails with TypeError.
WrongTagIsTypeError ==
    (/\ pc \in {"peek", "panicked"}
     /\ Len(stdout) = 2
     /\ heap.log # <<>>
     /\ WrongTagOperand(heap, heap.log[Len(heap.log)]))
        => ~result.ok /\ result.err = "TypeError"

(***************************************************************************)
(* Properties of symbols.                                                  *)
(***************************************************************************)
\* Spellings of names: some interned by Heap::new, some by the lines read,
\* some never interned.
Spellings == {"x", "X", "loop", "lOOp", "first", "FIRST", "fresh", "Fresh"}

\* The pairs of spellings that are equal once upper-cased.
FoldedPairs ==
    {p \in Spellings \X Spellings : to_ascii_uppercase(p[1]) = to_ascii_uppercase(p[2])}

\* Interning a and then b in h yields one Rc, and b allocates nothing.
InternTwice(h, a, b) ==
    LET r1 == make_symbol(h, a)
        r2 == make_symbol(r1.h, b)
    IN  r1.ok /\ r2.ok /\ SameRc(r1.val, r2.val) /\ r2.h = r1.h

\* A spelling a whose name is interned in h interns in g, spelt b, to the
\* same Rc and allocates nothing.
InternAcross(h, g, a, b) ==
    LET r1 == make_symbol(h, a)
        r2 == make_symbol(g, b)
    IN  r1.h = h => r2.ok /\ SameRc(r1.val, r2.val) /\ r2.h = g

\* C7: in every heap the driver reaches, two spellings that are equal once
\* upper-cased intern to the same Rc, the second of them allocating nothing;
\* a name interned before a collection interns to the same Rc after it; and
\* no two entries of the symbol list have the same upper-cased name.
InternIsCaseFolded ==
    /\ \A p \in FoldedPairs : InternTwice(heap, p[1], p[2])
    /\ LET g == collect(heap)
       IN  \A p \in FoldedPairs : InternAcross(heap, g, p[1], p[2])
    /\ LET names == ListToSeq(heap, heap.symbols)
       IN  Cardinality({to_ascii_uppercase(names[i].str) : i \in 1..Len(names)})
               = Len(names)

\* After a collection the driver has read `(Loop 1)`: its head is the Rc
\* interned for `loop` by an earlier line, which bound it.
InternedAcrossSpellings ==
    /\ pc = "eval"
    /\ lines_read = 2
    /\ heap.free # <<>>
    /\ stdout = <<"in:  (LOOP 1)">>
    /\ env_get(heap, heap.root_env, heap.cells[expr.num].first).ok
    /\ SameRc(heap.cells[expr.num].first, make_symbol(heap, "loop").val)

(***************************************************************************)
(* Properties of closures and environments.                                *)
(***************************************************************************)
\* The frames from env up its chain of parents.
RECURSIVE EnvChain(_, _)
EnvChain(h, env) ==
    CASE is_pair(env) -> {env.num} \cup EnvChain(h, h.cells[env.num].first)
      [] OTHER -> {}

\* What the i-th entry of the history says about scoping.
ScopedEvent(h, i) ==
    /\ h.log[i].ev = "lambda" => h.cells[h.log[i].clo.num].first = h.log[i].env
    /\ h.log[i].ev = "apply" =>
          /\ i > 1
          /\ h.log[i - 1].ev = "call"
          /\ h.log[i - 1].clo = h.log[i].clo
          /\ h.cells[h.log[i].env.num].first = h.cells[h.log[i].clo.num].first
          /\ h.log[i].env.num \notin EnvChain(h, h.log[i - 1].env)
          /\ \A j \in 1..Len(h.log) :
                (j # i /\ h.log[j].ev = "apply") => h.log[j].env # h.log[i].env

\* C8: a closure holds the environment its LAMBDA was evaluated in; a call
\* binds the parameters in a frame of its own whose parent is that captured
\* environment and which is neither the caller's environment, nor one of its
\* ancestors, nor the frame of another call; so (add5 10) is 15 wherever it
\* is called from.
LexicalScoping ==
    /\ \A i \in 1..Len(heap.log) : ScopedEvent(heap, i)
    /\ (/\ pc = "peek"
        /\ Len(stdout) = 2
        /\ stdout[1] \in {"in:  (ADD5 10)", "in:  ((LAMBDA (K) (ADD5 10)) 1)"}
        /\ result.ok)
           => stdout[2] = "out: 15"

\* (add5 10) was called from a frame that binds K to 1, under a root
\* environment that binds K to 100, and returned 15.
AdderCalledUnderOtherK ==
    /\ pc = "peek"
    /\ stdout = <<"in:  ((LAMBDA (K) (ADD5 10)) 1)", "out: 15">>
    /\ env_get(heap, heap.root_env, make_symbol(heap, "k").val) = Ok(Integer(100))

\* e is a form (DEFINE x v) with x a symbol.
IsDefineForm(h, e) ==
    /\ is_pair(e)
    /\ is_specific_symbol(h.cells[e.num].first, "DEFINE")
    /\ Arity(h, h.cells[e.num].rest, 2).ok
    /\ is_symbol(h.cells[h.cells[e.num].rest.num].first)

DefineName(h, e) == h.cells[h.cells[e.num].rest.num].first
DefineBody(h, e) == h.cells[h.cells[h.cells[e.num].rest.num].rest.num].first

Unbound(h, env, x) == env_get(h, env, x) = Err("UnboundSymbol")

\* A step that evaluates (DEFINE x v) at top level where evaluating v fails.
FailedDefineStep ==
    LET v == eval_in([heap EXCEPT !.log = <<>>], heap.root_env,
                     DefineBody(heap, expr), MaxDepth - 1)
    IN  (pc = "eval" /\ IsDefineForm(heap, expr) /\ ~v.ok) =>
            /\ result' = Err(v.err)
            /\ [heap' EXCEPT !.log = <<>>] = [v.h EXCEPT !.log = <<>>]
            /\ (/\ Unbound(heap, heap.root_env, DefineName(heap, expr))
                /\ Unbound(v.h, heap.root_env, DefineName(heap, expr)))
                   => Unbound(heap', heap.root_env, DefineName(heap, expr))

\* C9: when the value of a DEFINE fails to evaluate, the DEFINE returns that
\* error and leaves the arena as the failed evaluation left it: it binds
\* nothing itself, so a name unbound before and not bound by the evaluation
\* of the value is unbound afterwards.
FailingDefineBindsNothing == [][FailedDefineStep]_vars

\* (define y (first 1)) has failed and Y is unbound.
FailedDefineLeftUnbound ==
    /\ pc = "peek"
    /\ stdout = <<"in:  (DEFINE Y (FIRST 1))", "err: ImproperList">>
    /\ Unbound(heap, heap.root_env, make_symbol(heap, "y").val)

\* The environments of h: the root and every environment a closure holds.
Frames(h) ==
    {h.root_env}
        \cup {h.cells[k].first :
                 k \in KeysOf({v \in {h.cells[j].rest : j \in DOMAIN h.cells} :
                                  v.tag = "Closure"})}

\* How many bindings of the frame env have the key name.
CountBound(h, env, name) ==
    LET b == ListToSeq(h, h.cells[env.num].rest)
    IN  Cardinality({i \in 1..Len(b) : IsBindingOf(h, b[i], name)})

\* What env_set(env, name, val) does to the heap h.
EnvSetEffect(h, env, name, val) ==
    LET r == env_set(h, env, name, val)
        old == FindBinding(h, h.cells[env.num].rest, name).val
    IN  /\ r.ok
        /\ CountBound(r.h, env, name) = 1
        /\ env_get(r.h, env, name) = Ok(val)
        /\ \A p \in EnvChain(h, h.cells[env.num].first) :
              env_get(r.h, Pair(p), name) = env_get(h, Pair(p), name)
        /\ IF ~is_nil(old)
           THEN /\ DOMAIN r.h.cells = DOMAIN h.cells
                /\ \A k \in DOMAIN h.cells :
                      r.h.cells[k] = IF k = old.num
                                     THEN [h.cells[k] EXCEPT !.rest = val]
                                     ELSE h.cells[k]
           ELSE /\ Cardinality(DOMAIN r.h.cells \ DOMAIN h.cells) = 2
                /\ \A k \in DOMAIN h.cells \ {env.num} : r.h.cells[k] = h.cells[k]
                /\ r.h.cells[env.num].first = h.cells[env.num].first
                /\ is_pair(r.h.cells[env.num].rest)
                /\ r.h.cells[r.h.cells[env.num].rest.num].rest = h.cells[env.num].rest
                /\ r.h.cells[r.h.cells[r.h.cells[env.num].rest.num].first.num]
                       = ConsCell(name, val, FALSE)

\* Names to define: bound by Heap::new, bound by the lines read, or unbound.
DefinedNames == {"x", "k", "n", "+", "fresh"}

\* env_set on every frame of the heap and every name of DefinedNames.
EnvSetChangesOneFrame ==
    \A n \in DefinedNames : \A env \in Frames(heap) :
        EnvSetEffect(make_symbol(heap, n).h, env, make_symbol(heap, n).val,
                     Boolean(FALSE))

\* An evaluation step leaves the root binding of every name as it was unless
\* a DEFINE of that name ran in the root environment itself.
DefineKeepsOtherFrames ==
    pc = "eval" =>
        \A n \in DefinedNames :
            (\A i \in 1..Len(heap'.log) :
                ~(/\ heap'.log[i].ev = "define"
                  /\ heap'.log[i].env = heap.root_env
                  /\ heap'.log[i].clo.str = to_ascii_uppercase(n)))
                => env_get(heap', heap.root_env, make_symbol(heap, n).val)
                       = env_get(heap, heap.root_env, make_symbol(heap, n).val)

\* C10: env_set changes the one frame it is given: a name bound there has its
\* value replaced in place, a name not bound there gets one new binding at
\* the front, every other cell and every binding of the parent frames stays
\* as it was, and env_get then yields the value; a DEFINE that runs in a
\* closure's frame therefore leaves the root binding of its name alone.
DefineChangesCurrentFrameOnly ==
    /\ []EnvSetChangesOneFrame
    /\ [][DefineKeepsOtherFrames]_vars

\* (define k 7) ran in the frame of a call while the root environment bound
\* K to 100, and K at top level is still 100.
DefineInCallKeptRoot ==
    /\ pc = "peek"
    /\ stdout = <<"in:  K", "out: 100">>
    /\ \E f \in DOMAIN heap.cells :
          /\ Pair(f) # heap.root_env
          /\ heap.cells[f].first = heap.root_env
          /\ env_get(heap, Pair(f), make_symbol(heap, "k").val) = Ok(Integer(7))

(***************************************************************************)
(* Properties of the order of evaluation.                                  *)
(***************************************************************************)
\* The places of the history of h at which the entry (ev, env, form) stands.
Places(h, ev, env, form) ==
    {i \in 1..Len(h.log) :
        h.log[i].ev = ev /\ h.log[i].env = env /\ h.log[i].clo = form}

\* The first of those places; 0 when there is none.
Place(h, ev, env, form) ==
    IF Places(h, ev, env, form) = {} THEN 0
    ELSE CHOOSE i \in Places(h, ev, env, form) :
             \A j \in Places(h, ev, env, form) : i <= j

\* The application x, evaluated in env: each of its elements that is a form
\* is evaluated at most once and after x was entered; an element is entered
\* only after every form before it has returned a value; and x returns a
\* value only after all of them have.
ApplicationInOrder(h, env, x) ==
    LET subs == ListToSeq(h, x)
        forms == {i \in 1..Len(subs) : is_pair(subs[i])}
    IN  /\ \A i \in forms :
              /\ Cardinality(Places(h, "eval", env, subs[i])) <= 1
              /\ Place(h, "eval", env, subs[i]) > 0
                     => Place(h, "eval", env, subs[i]) > Place(h, "eval", env, x)
              /\ \A j \in forms :
                    (i < j /\ Place(h, "eval", env, subs[j]) > 0)
                        => /\ Place(h, "done", env, subs[i]) > 0
                           /\ Place(h, "done", env, subs[i])
                                  < Place(h, "eval", env, subs[j])
        /\ Place(h, "done", env, x) > 0
               => \A i \in forms :
                     /\ Place(h, "done", env, subs[i]) > 0
                     /\ Place(h, "done", env, subs[i]) < Place(h, "done", env, x)

\* Whether the branch br of an IF was entered, must have been entered (1),
\* or must not have been (0), agrees with the history; a branch that is no
\* form leaves no entry.
BranchEntered(h, env, br, wanted) ==
    is_pair(br) => ((Place(h, "eval", env, br) > 0) <=> wanted)

\* The form (IF test a b), evaluated in env: a branch is entered only after
\* the test has returned a value, and then the one branch that value selects
\* is entered and the other is not.
IfInOrder(h, env, test, a, b) ==
    /\ is_pair(test) =>
          /\ \A br \in {a, b} :
                (is_pair(br) /\ Place(h, "eval", env, br) > 0)
                    => /\ Place(h, "done", env, test) > 0
                       /\ Place(h, "done", env, test) < Place(h, "eval", env, br)
          /\ Place(h, "done", env, test) > 0 =>
                /\ BranchEntered(h, env, a,
                                 is_truthy(h.log[Place(h, "done", env, test)].args))
                /\ BranchEntered(h, env, b,
                                 ~is_truthy(h.log[Place(h, "done", env, test)].args))
    /\ test.tag = "Boolean" =>
          /\ BranchEntered(h, env, a, is_truthy(test))
          /\ BranchEntered(h, env, b, ~is_truthy(test))
    /\ \A br \in {a, b} : is_pair(br) => Cardinality(Places(h, "eval", env, br)) <= 1

\* What the order of evaluation asks of the form x evaluated in env.
FormInOrder(h, env, x) ==
    LET head == h.cells[x.num].first
        args == h.cells[x.num].rest
    IN  CASE is_specific_symbol(head, "IF") ->
                Arity(h, args, 3).ok =>
                    IfInOrder(h, env, h.cells[args.num].first,
                              h.cells[h.cells[args.num].rest.num].first,
                              h.cells[h.cells[h.cells[args.num].rest.num].rest.num].first)
          [] \E w \in {"QUOTE", "DEFINE", "LAMBDA"} : is_specific_symbol(head, w) -> TRUE
          [] OTHER -> ApplicationInOrder(h, env, x)

\* C11: every form the evaluation has entered evaluates its parts from left
\* to right: an application its operator and then each argument, one part
\* returning before the next is entered and none entered after a part has
\* failed; an IF its test and then the one branch the test selects.  So the
\* second (define a ...) of one argument list sees the first, and a name
\* defined after a failing argument stays unbound.
EvaluationLeftToRight ==
    /\ \A p \in 1..Len(heap.log) :
          heap.log[p].ev = "eval"
              => FormInOrder(heap, heap.log[p].env, heap.log[p].clo)
    /\ (pc = "peek" /\ Len(stdout) = 2 /\ stdout[1] = "in:  A" /\ result.ok)
           => stdout[2] = "out: 2"
    /\ (pc = "peek" /\ Len(stdout) = 2 /\ stdout[1] = "in:  E")
           => stdout[2] = "err: UnboundSymbol"

\* An application whose operator and both arguments are forms has returned.
EvaluatedThreeForms ==
    /\ pc = "peek"
    /\ stdout = <<"in:  ((LAMBDA (P Q) Q) (DEFINE A 1) (DEFINE A (+ A 1)))", "out: A">>
    /\ Cardinality({i \in 1..Len(heap.log) : heap.log[i].ev = "done"}) >= 4

(***************************************************************************)
(* Properties of printing and reading back.                                *)
(***************************************************************************)
RECURSIVE SameValue(_, _, _, _)
\* The value a of heap g and the value b of heap h have the same structure,
\* with the same allocation wherever a holds a symbol.
SameValue(g, a, h, b) ==
    CASE a.tag = "Pair" ->
            /\ b.tag = "Pair"
            /\ SameValue(g, g.cells[a.num].first, h, h.cells[b.num].first)
            /\ SameValue(g, g.cells[a.num].rest, h, h.cells[b.num].rest)
      [] a.tag = "Symbol" -> SameRc(a, b) /\ a.str = b.str
      [] OTHER -> a = b

\* Reading the printed form of the value v of heap h back into h.
ReadBack(h, v) == parse_expr(tokenize(format_expr(h, v)), h)

\* C12: whatever value the parser has just read from the input line, its
\* printed form tokenizes and parses, to the end of the text, into a value of
\* the same structure whose symbols are the very allocations of the original.
PrintReadRoundTrip ==
    pc = "eval" =>
        /\ ReadBack(heap, expr).ok
        /\ ReadBack(heap, expr).rest = <<>>
        /\ SameValue(heap, expr, ReadBack(heap, expr).h, ReadBack(heap, expr).val)

\* A quoted list with a nested dotted pair, a negative integer, both
\* booleans, the empty list and a dotted tail has been read and read back.
ReadBackDottedList ==
    /\ pc = "eval"
    /\ stdout = <<"in:  (QUOTE (A (B . -3) #t #f () . C))">>
    /\ ReadBack(heap, expr).ok
    /\ ReadBack(heap, expr).val # expr

(***************************************************************************)
(* Properties of the arithmetic primitives.                                *)
(***************************************************************************)
\* The quotient of a by b rounded toward zero: the q for which a - q * b is
\* smaller in magnitude than b and, unless zero, has the sign of a.
Quotient(a, b) ==
    LET m == IF a < 0 THEN 0 - a ELSE a
    IN  CHOOSE q \in (0 - m)..m :
            LET r == a - q * b
            IN  /\ (IF r < 0 THEN 0 - r ELSE r) < (IF b < 0 THEN 0 - b ELSE b)
                /\ r # 0 => ((r < 0) <=> (a < 0))

\* What the operator named name makes of a and b.
Operate(name, a, b) ==
    CASE name = "+" -> a + b
      [] name = "-" -> a - b
      [] name = "*" -> a * b
      [] name = "/" -> Quotient(a, b)

\* The left fold of the operator over the integers xs, from acc.
RECURSIVE FoldLeft(_, _, _)
FoldLeft(name, acc, xs) ==
    IF xs = <<>> THEN acc
    ELSE FoldLeft(name, Operate(name, acc, Head(xs).num), Tail(xs))

\* What is printed for the operator applied to the integers xs.
Expected(name, xs) ==
    CASE Len(xs) = 0 -> "err: WrongNumberOfArgs"
      [] Len(xs) = 1 ->
            "out: " \o to_string(Operate(name, IF name \in {"+", "-"} THEN 0 ELSE 1,
                                         xs[1].num))
      [] OTHER -> "out: " \o to_string(FoldLeft(name, xs[1].num, Tail(xs)))

\* The form x applies one of + - * / to integer literals alone, none of them
\* a zero divisor.
IsArithmeticOnLiterals(h, x) ==
    /\ is_pair(x)
    /\ \E name \in {"+", "-", "*", "/"} : is_specific_symbol(h.cells[x.num].first, name)
    /\ \A i \in 2..Len(ListToSeq(h, x)) :
          /\ ListToSeq(h, x)[i].tag = "Integer"
          /\ (is_specific_symbol(h.cells[x.num].first, "/") /\ i > 2)
                 => ListToSeq(h, x)[i].num # 0
    /\ (is_specific_symbol(h.cells[x.num].first, "/") /\ Len(ListToSeq(h, x)) = 2)
           => ListToSeq(h, x)[2].num # 0

\* C13: one of + - * / applied to no argument fails with WrongNumberOfArgs;
\* applied to one integer x it yields the operator on its identity (0 for +
\* and -, 1 for * and /) and x; applied to more it yields the left fold of the
\* operator from the first operand, its division rounding toward zero.
VariadicArithmetic ==
    (pc = "peek" /\ Len(stdout) = 2 /\ IsArithmeticOnLiterals(heap, expr))
        => stdout[2] = Expected(heap.cells[expr.num].first.str,
                                Tail(ListToSeq(heap, expr)))

\* Division of a negative by a positive integer has rounded toward zero.
DividedTowardZero ==
    /\ pc = "peek"
    /\ stdout = <<"in:  (/ -7 2)", "out: -3">>
    /\ IsArithmeticOnLiterals(heap, expr)

====
